---------------------------- MODULE Spec2Model ----------------------------
(***************************************************************************)
(* A model of rasberry_perception_pkg/visualisation.py:                    *)
(*   LabelColours              the cyclic colour palette                   *)
(*   draw_detection_msg_on_image   boxes, mask blends and label tags       *)
(*   PoseArrayPublisher        one PoseArray per call                      *)
(*   MarkerPublisher           the marker id counter, clear and publish    *)
(*                                                                         *)
(* Python values that may be of more than one type (a point entry's        *)
(* elements) are tagged records [type, val].  Float colour components are  *)
(* exact rationals held as integers in units of 1/(255*255), so that both  *)
(* c and c/255.0 are representable for every c the model supplies.         *)
(***************************************************************************)
EXTENDS Integers, Sequences, FiniteSets, TLC

VARIABLES
    \* ---- MarkerPublisher (one instance) and its sink
    supplied,        \* the colours argument given to __init__ (ghost)
    colours,         \* self.colours
    last_object_id,  \* self.__last_object_id
    sink,            \* what self.publisher has published, in publish order
    logged,          \* the entries rospy.logerr reported in the last call
    lastCall,        \* the last completed or aborted call on the instance
    calls,           \* number of calls made so far (bounded)
    constructed,     \* whether __init__ has run
    now,             \* rospy.Time.now()
    \* ---- threads calling into the one MarkerPublisher
    serialized,      \* whether the callers hold a mutex around each call
    tpc,             \* each thread's position in the code
    tcall,           \* each thread's current call: op, points, clear, loop index
    tloc,            \* each thread's locals: the loaded counter, the returned id
    tcalls,          \* calls each thread has started (bounded)
    \* ---- PoseArrayPublisher (one instance) and its sink
    pose_frame_id,   \* self.frame_id ("" stands for None)
    poseSink,        \* the PoseArray messages published, in order
    poseCall,        \* the last visualise_points call and the caller's header after it
    \* ---- LabelColours.__getitem__
    pal,             \* a palette, the indices looked up and the results
    \* ---- one mask blend of one pixel channel, applied repeatedly
    blend,
    \* ---- draw_detection_msg_on_image
    image,           \* the image buffer, image[row][col] = <<c1, c2, c3>>
    texts,           \* the cv2.putText calls made on the image, in order
    renderCall       \* the call's arguments and how it ended

markerVars == <<supplied, colours, last_object_id, sink, logged, lastCall, calls,
                constructed>>
threadVars == <<serialized, tpc, tcall, tloc, tcalls>>
poseVars == <<pose_frame_id, poseSink, poseCall>>
renderVars == <<image, texts, renderCall>>
restVars == <<poseVars, pal, blend, renderVars>>

-----------------------------------------------------------------------------
(* Bounds *)

MaxBatch == 2         \* longest enumerated point list (the worked example is added)
MaxCalls == 2         \* calls per run of the sequential MarkerPublisher
MaxTime == 1          \* largest clock value
MaxPalette == 2       \* longest colour list given to MarkerPublisher.__init__
MaxThreadBatch == 2   \* longest point list a thread passes
MaxThreadCalls == 1   \* calls per thread
MaxPosePoints == 2    \* longest point list given to PoseArrayPublisher
MaxPoseCalls == 2     \* calls per run of the PoseArrayPublisher
MaxIndex == 50        \* palette indices looked up are -MaxIndex..MaxIndex
MaxK == 2             \* palette index shifts are k*length, k in -MaxK..MaxK
MaxDetections == 2    \* longest bounding-box / instance list of a detection message
MaxBlends == 2        \* times one pixel is blended with the same mask and colour
ImageSide == 3        \* the image is ImageSide x ImageSide pixels

-----------------------------------------------------------------------------
(* Python values *)

PyInt(n) == [type |-> "int", val |-> n]
PyStr(n) == [type |-> "str", val |-> n]

\* the string "bad" of the point (4, 5, 6, "bad")
Bad == PyStr(0)

Range(s) == {s[i] : i \in DOMAIN s}

SeqMax(s) == CHOOSE m \in Range(s) : \A x \in Range(s) : x <= m

\* list.__getitem__ of a Python list of length n with index idx:
\* a non-integer raises TypeError, an integer outside -n..n-1 raises
\* IndexError, a negative integer counts from the end.
ListIndexOutcome(n, idx) ==
    IF idx.type # "int" THEN "TypeError"
    ELSE IF idx.val >= n \/ idx.val < -n THEN "IndexError"
    ELSE "ok"

ListIndex(list, idx) ==
    IF idx.val < 0 THEN list[Len(list) + idx.val + 1] ELSE list[idx.val + 1]

-----------------------------------------------------------------------------
(* Colour components as exact rationals: value = units / Den *)

Scale255 == 255
Den == Scale255 * Scale255

Whole(n) == n * Den            \* the number n
Frac255(k) == k * Scale255     \* the number k/255

\* c2 / 255.0
DivideBy255(c2) == c2 \div Scale255

-----------------------------------------------------------------------------
(* MarkerPublisher.__init__ *)

NoColours == <<>>   \* colours=None

DefaultMarkerColours == << <<Whole(1), Whole(1), Whole(1)>> >>

\* the rescaling test of line 99
NeedsRescale(cols) == SeqMax(cols[1]) > Whole(1)

MarkerInitColours(arg) ==
    LET c0 == IF arg = NoColours THEN DefaultMarkerColours ELSE arg
    IN IF NeedsRescale(c0)
       THEN [i \in DOMAIN c0 |-> [j \in DOMAIN c0[i] |-> DivideBy255(c0[i][j])]]
       ELSE c0

MarkerFrame == "map"

\* visualization_msgs/Marker constants
ADD == 0
DELETEALL == 3
SPHERE == 2

\* 0.05 in units of 1/100
ScaleHundredths == 5

ZeroPos == <<0, 0, 0>>
ZeroColour == <<0, 0, 0>>

\* Marker(action=3) with header.frame_id = self.frame_id, header.stamp = Time()
clear_marker ==
    [action |-> DELETEALL, id |-> 0, type |-> 0,
     header |-> [stamp |-> 0, frame_id |-> MarkerFrame],
     pos |-> ZeroPos, w |-> 0, colour |-> ZeroColour, alpha |-> 0,
     scale |-> 0, lifetime |-> 0]

\* lines 134-152
MakeMarker(id, header, xyz, colour, lifetime) ==
    [action |-> ADD, id |-> id, type |-> SPHERE,
     header |-> [stamp |-> header.stamp, frame_id |-> MarkerFrame],
     pos |-> xyz, w |-> 1, colour |-> colour, alpha |-> 1,
     scale |-> ScaleHundredths, lifetime |-> lifetime]

\* get_object_id: the new value of the counter, which is also returned
get_object_id(counter) == counter + 1

\* One iteration of the loop of visualise_points (lines 124-153) on the
\* call's running state st = [sink, id, logged, raised].
\* A variant: the colour is looked up before the id is taken.
PointLoopBodyLookupFirst(point_info, st, ctx) ==
    IF Len(point_info) \notin {3, 4}
    THEN [st EXCEPT !.logged = Append(@, point_info)]
    ELSE LET colour_id == IF Len(point_info) = 4 THEN point_info[4] ELSE PyInt(0)
             outcome == ListIndexOutcome(Len(ctx.colours), colour_id)
         IN IF outcome # "ok"
            THEN [st EXCEPT !.raised = outcome]
            ELSE [st EXCEPT !.id = get_object_id(st.id),
                            !.sink = Append(@, MakeMarker(get_object_id(st.id), ctx.header,
                                           <<point_info[1].val, point_info[2].val, point_info[3].val>>,
                                           ListIndex(ctx.colours, colour_id), ctx.lifetime))]

PointLoopBody(point_info, st, ctx) ==
    IF Len(point_info) \notin {3, 4}
    THEN [st EXCEPT !.logged = Append(@, point_info)]
    ELSE LET colour_id == IF Len(point_info) = 4 THEN point_info[4] ELSE PyInt(0)
             id == get_object_id(st.id)
             outcome == ListIndexOutcome(Len(ctx.colours), colour_id)
         IN IF outcome # "ok"
            THEN [st EXCEPT !.id = id, !.raised = outcome]
            ELSE [st EXCEPT !.id = id,
                            !.sink = Append(@, MakeMarker(id, ctx.header,
                                           <<point_info[1].val, point_info[2].val, point_info[3].val>>,
                                           ListIndex(ctx.colours, colour_id), ctx.lifetime))]

\* the for loop of line 124: it ends at the first exception
RECURSIVE PointLoop(_, _, _, _)
PointLoop(point_information, i, st, ctx) ==
    IF i > Len(point_information) \/ st.raised # "none" THEN st
    ELSE PointLoop(point_information, i + 1,
                   PointLoopBody(point_information[i], st, ctx), ctx)

\* clear_markers on a running state
ClearState(st) == [st EXCEPT !.sink = Append(@, clear_marker), !.id = -1]

-----------------------------------------------------------------------------
(* Inputs of the MarkerPublisher operations *)

P3 == <<PyInt(1), PyInt(2), PyInt(3)>>
P4 == <<PyInt(7), PyInt(8), PyInt(9), PyInt(0)>>
P4Out == <<PyInt(4), PyInt(5), PyInt(6), PyInt(9)>>
P4Bad == <<PyInt(4), PyInt(5), PyInt(6), Bad>>
P2 == <<PyInt(1), PyInt(2)>>

\* the entries the enumerated point lists are built from
PointInputs == {P3, P4Out, P2}

\* the list [(1,2,3), (4,5,6,"bad"), (7,8,9,0)]
ExampleBatch == <<P3, P4Bad, P4>>

Batches == UNION {[1..n -> PointInputs] : n \in 0..MaxBatch} \cup {ExampleBatch}

NoHeader == [given |-> FALSE, stamp |-> 0, frame_id |-> ""]
GivenHeader == [given |-> TRUE, stamp |-> 7, frame_id |-> "camera"]

NoDuration == [given |-> FALSE, secs |-> 0]
GivenDuration == [given |-> TRUE, secs |-> 5]

\* (header, duration) as the callers pass them
CallOptions == {<<NoHeader, NoDuration>>, <<GivenHeader, GivenDuration>>}

ComponentInputs == {Whole(0), Frac255(51), Whole(1), Whole(255)}

TripleInputs == {<<r, g, b>> : r \in ComponentInputs, g \in ComponentInputs, b \in ComponentInputs}

\* every colours argument of up to MaxPalette colours, and None
ColourArgs == UNION {[1..n -> TripleInputs] : n \in 1..MaxPalette} \cup {NoColours}

\* the colours arguments of the instance the call sequences run on
ColourInputs ==
    { NoColours,
      << <<Whole(255), Whole(0), Whole(0)>>, <<Whole(0), Whole(255), Whole(0)>> >> }

NoCall == [op |-> "none", points |-> <<>>, clear |-> FALSE, raised |-> "none",
           sinkBefore |-> 0, idBefore |-> -1, prevRaised |-> "none",
           header |-> NoHeader, lifetime |-> 0]

-----------------------------------------------------------------------------
(* MarkerPublisher: the state after construction and the two operations *)

Threads == {1, 2}

NoThreadCall == [op |-> "none", points |-> <<>>, clear |-> FALSE, i |-> 1]
NoLocals == [loaded |-> -1, id |-> -1]

ThreadsIdle ==
    /\ serialized = TRUE
    /\ tpc = [t \in Threads |-> "idle"]
    /\ tcall = [t \in Threads |-> NoThreadCall]
    /\ tloc = [t \in Threads |-> NoLocals]
    /\ tcalls = [t \in Threads |-> 0]

\* clear_markers()
ClearMarkers ==
    /\ constructed
    /\ calls < MaxCalls
    /\ LET st == ClearState([sink |-> sink, id |-> last_object_id,
                             logged |-> <<>>, raised |-> "none"])
       IN /\ sink' = st.sink
          /\ last_object_id' = st.id
          /\ logged' = <<>>
          /\ lastCall' = [NoCall EXCEPT !.op = "clear_markers",
                                        !.sinkBefore = Len(sink),
                                        !.idBefore = last_object_id,
                                        !.prevRaised = lastCall.raised]
    /\ calls' = calls + 1
    /\ UNCHANGED <<supplied, colours, constructed, now>>
    /\ UNCHANGED <<threadVars, restVars>>

\* visualise_points(point_information, header, clear, duration)
VisualisePointsCall(point_information, header, clear, duration) ==
    /\ constructed
    /\ calls < MaxCalls
    /\ LET st0 == [sink |-> sink, id |-> last_object_id,
                   logged |-> <<>>, raised |-> "none"]
           st1 == IF clear THEN ClearState(st0) ELSE st0
           hdr == IF header.given THEN header
                  ELSE [given |-> TRUE, stamp |-> now, frame_id |-> ""]
           life == IF duration.given THEN duration.secs ELSE 0
           ctx == [colours |-> colours, header |-> hdr, lifetime |-> life]
           st2 == PointLoop(point_information, 1, st1, ctx)
       IN /\ sink' = st2.sink
          /\ last_object_id' = st2.id
          /\ logged' = st2.logged
          /\ lastCall' = [op |-> "visualise_points", points |-> point_information,
                          clear |-> clear, raised |-> st2.raised,
                          sinkBefore |-> Len(sink), idBefore |-> last_object_id,
                          prevRaised |-> lastCall.raised,
                          header |-> hdr, lifetime |-> life]
    /\ calls' = calls + 1
    /\ UNCHANGED <<supplied, colours, constructed, now>>
    /\ UNCHANGED <<threadVars, restVars>>

VisualisePoints ==
    \E point_information \in Batches, clear \in BOOLEAN :
        VisualisePointsCall(point_information, NoHeader, clear, NoDuration)

-----------------------------------------------------------------------------
(* Threads calling clear_markers / visualise_points on the same instance.   *)
(* Each access to self.__last_object_id and each publish is one step; the   *)
(* interpreter may switch threads between any two of them.  With            *)
(* serialized = TRUE the callers hold a mutex around every call.            *)

ThreadPointInputs == {P3, P4Out, P2}

ThreadBatches == UNION {[1..n -> ThreadPointInputs] : n \in 0..MaxThreadBatch}

MayStart(t) ==
    /\ tpc[t] = "idle"
    /\ tcalls[t] < MaxThreadCalls
    /\ serialized => \A u \in Threads \ {t} : tpc[u] = "idle"

\* a thread enters clear_markers()
TStartClear(t) ==
    /\ MayStart(t)
    /\ tcall' = [tcall EXCEPT ![t] = [NoThreadCall EXCEPT !.op = "clear_markers"]]
    /\ tpc' = [tpc EXCEPT ![t] = "clear_publish"]
    /\ tcalls' = [tcalls EXCEPT ![t] = @ + 1]
    /\ UNCHANGED <<markerVars, now, restVars, serialized, tloc>>

\* a thread enters visualise_points(points, clear=clear)
TStartVisualise(t) ==
    /\ MayStart(t)
    /\ \E points \in ThreadBatches, clear \in BOOLEAN :
          /\ tcall' = [tcall EXCEPT ![t] = [op |-> "visualise_points", points |-> points,
                                            clear |-> clear, i |-> 1]]
          /\ tpc' = [tpc EXCEPT ![t] = IF clear THEN "clear_publish" ELSE "loop"]
    /\ tcalls' = [tcalls EXCEPT ![t] = @ + 1]
    /\ UNCHANGED <<markerVars, now, restVars, serialized, tloc>>

\* line 106: self.publisher.publish(self.clear_marker)
TClearPublish(t) ==
    /\ tpc[t] = "clear_publish"
    /\ sink' = Append(sink, clear_marker)
    /\ tpc' = [tpc EXCEPT ![t] = "clear_reset"]
    /\ UNCHANGED <<supplied, colours, last_object_id, logged, lastCall, calls,
                   constructed, now, restVars, serialized, tcall, tloc, tcalls>>

\* line 107: self.__last_object_id = -1
TClearReset(t) ==
    /\ tpc[t] = "clear_reset"
    /\ last_object_id' = -1
    /\ tpc' = [tpc EXCEPT ![t] = IF tcall[t].op = "clear_markers" THEN "idle" ELSE "loop"]
    /\ UNCHANGED <<supplied, colours, sink, logged, lastCall, calls,
                   constructed, now, restVars, serialized, tcall, tloc, tcalls>>

\* lines 124-127: the loop head and the arity test
TLoop(t) ==
    /\ tpc[t] = "loop"
    /\ LET c == tcall[t] IN
       IF c.i > Len(c.points)
       THEN /\ tpc' = [tpc EXCEPT ![t] = "idle"]
            /\ UNCHANGED <<logged, tcall>>
       ELSE IF Len(c.points[c.i]) \notin {3, 4}
       THEN /\ logged' = Append(logged, c.points[c.i])
            /\ tcall' = [tcall EXCEPT ![t].i = @ + 1]
            /\ UNCHANGED tpc
       ELSE /\ tpc' = [tpc EXCEPT ![t] = "id_load"]
            /\ UNCHANGED <<logged, tcall>>
    /\ UNCHANGED <<supplied, colours, last_object_id, sink, lastCall, calls,
                   constructed, now, restVars, serialized, tloc, tcalls>>

\* line 110, the read of self.__last_object_id += 1
TIdLoad(t) ==
    /\ tpc[t] = "id_load"
    /\ tloc' = [tloc EXCEPT ![t].loaded = last_object_id]
    /\ tpc' = [tpc EXCEPT ![t] = "id_store"]
    /\ UNCHANGED <<markerVars, now, restVars, serialized, tcall, tcalls>>

\* line 110, the write of self.__last_object_id += 1
TIdStore(t) ==
    /\ tpc[t] = "id_store"
    /\ last_object_id' = tloc[t].loaded + 1
    /\ tpc' = [tpc EXCEPT ![t] = "id_return"]
    /\ UNCHANGED <<supplied, colours, sink, logged, lastCall, calls,
                   constructed, now, restVars, serialized, tcall, tloc, tcalls>>

\* line 111: return self.__last_object_id (a second read of the field)
TIdReturn(t) ==
    /\ tpc[t] = "id_return"
    /\ tloc' = [tloc EXCEPT ![t].id = last_object_id]
    /\ tpc' = [tpc EXCEPT ![t] = "publish"]
    /\ UNCHANGED <<markerVars, now, restVars, serialized, tcall, tcalls>>

\* lines 144-153: the colour lookup (which may raise) and the publish
TPublish(t) ==
    /\ tpc[t] = "publish"
    /\ LET c == tcall[t]
           point_info == c.points[c.i]
           colour_id == IF Len(point_info) = 4 THEN point_info[4] ELSE PyInt(0)
       IN IF ListIndexOutcome(Len(colours), colour_id) # "ok"
          THEN /\ tpc' = [tpc EXCEPT ![t] = "idle"]
               /\ UNCHANGED <<sink, tcall>>
          ELSE /\ sink' = Append(sink, MakeMarker(tloc[t].id,
                              [given |-> TRUE, stamp |-> now, frame_id |-> ""],
                              <<point_info[1].val, point_info[2].val, point_info[3].val>>,
                              ListIndex(colours, colour_id), 0))
               /\ tcall' = [tcall EXCEPT ![t].i = @ + 1]
               /\ tpc' = [tpc EXCEPT ![t] = "loop"]
    /\ UNCHANGED <<supplied, colours, last_object_id, logged, lastCall, calls,
                   constructed, now, restVars, serialized, tloc, tcalls>>

-----------------------------------------------------------------------------
(* PoseArrayPublisher *)

PosePointInputs == {<<0, 0, 0>>, <<1, 1, 1>>}

PoseBatches == UNION {[1..n -> PosePointInputs] : n \in 0..MaxPosePoints}

PoseFrameInputs == {"", "map"}

\* Point(*pts)
Position(pts) == [x |-> pts[1], y |-> pts[2], z |-> pts[3]]

\* Quaternion() with every field at its default
ZeroQuaternion == [x |-> 0, y |-> 0, z |-> 0, w |-> 0]

\* Quaternion(w=1)
UnitQuaternion == [x |-> 0, y |-> 0, z |-> 0, w |-> 1]

\* lines 82-84: one Pose per point, in a list that starts empty
BuildPoses(xyz) ==
    [i \in 1..Len(xyz) |-> [position |-> Position(xyz[i]), orientation |-> UnitQuaternion]]

\* lines 77-81: the header that is published; a given header is the caller's
\* object, whose frame_id is overwritten when self.frame_id is set
PoseHeader(header, frame_id, time) ==
    LET h0 == IF header.given THEN header
              ELSE [given |-> TRUE, stamp |-> time, frame_id |-> ""]
    IN IF frame_id # "" THEN [h0 EXCEPT !.frame_id = frame_id] ELSE h0

NoPoseCall == [made |-> FALSE, xyz |-> <<>>, header |-> NoHeader,
               headerAfter |-> NoHeader, at |-> 0, sinkBefore |-> 0]

PoseIdle ==
    /\ pose_frame_id = ""
    /\ poseSink = <<>>
    /\ poseCall = NoPoseCall

\* PoseArrayPublisher.visualise_points(xyz, header)
PoseVisualisePoints ==
    /\ Len(poseSink) < MaxPoseCalls
    /\ \E xyz \in PoseBatches, header \in {NoHeader, GivenHeader} :
          LET hdr == PoseHeader(header, pose_frame_id, now)
          IN /\ poseSink' = Append(poseSink, [header |-> [stamp |-> hdr.stamp,
                                                          frame_id |-> hdr.frame_id],
                                              poses |-> BuildPoses(xyz)])
             /\ poseCall' = [made |-> TRUE, xyz |-> xyz, header |-> header,
                             headerAfter |-> IF header.given THEN hdr ELSE NoHeader,
                             at |-> now, sinkBefore |-> Len(poseSink)]
    /\ UNCHANGED <<markerVars, now, threadVars, pose_frame_id, pal, blend, renderVars>>

\* the clock advances between calls
Tick ==
    /\ now < MaxTime
    /\ now' = now + 1
    /\ UNCHANGED <<markerVars, threadVars, restVars>>

-----------------------------------------------------------------------------
(* LabelColours *)

DefaultColourList ==
    << <<230, 25, 75>>, <<60, 180, 75>>, <<255, 225, 25>>, <<0, 130, 200>>,
       <<245, 130, 48>>, <<145, 30, 180>>, <<70, 240, 240>>, <<240, 50, 230>>,
       <<210, 245, 60>>, <<250, 190, 190>>, <<0, 128, 128>>, <<230, 190, 255>>,
       <<170, 110, 40>>, <<255, 250, 200>>, <<128, 0, 0>>, <<170, 255, 195>>,
       <<128, 128, 0>>, <<255, 215, 180>>, <<0, 0, 128>>, <<128, 128, 128>>,
       <<255, 255, 255>>, <<0, 0, 0>> >>

NoColourList == <<>>   \* colour_list=None

\* LabelColours.__init__
LabelColoursInit(colour_list) ==
    IF colour_list = NoColourList THEN DefaultColourList ELSE colour_list

\* A variant: the index wraps as a plain modulo, without the sign fold.
FoldIndexPlainModulo(item, n) == item % n

\* lines 23-26: the index __getitem__ reads
FoldIndex(item, n) ==
    LET a == IF item < 0 THEN item * (-1) ELSE item
    IN IF a >= n THEN a % n ELSE a

\* LabelColours.__getitem__: the list read of line 27 and how it ends
GetItem(cols, item) ==
    LET idx == FoldIndex(item, Len(cols))
    IN IF ListIndexOutcome(Len(cols), PyInt(idx)) = "ok"
       THEN [outcome |-> "ok", index |-> idx, colour |-> ListIndex(cols, PyInt(idx))]
       ELSE [outcome |-> ListIndexOutcome(Len(cols), PyInt(idx)), index |-> idx,
             colour |-> <<>>]

PaletteArgs ==
    { NoColourList,
      << <<255, 0, 0>>, <<0, 255, 0>>, <<0, 0, 255>> >>,
      << <<10, 20, 30>> >> }

NoResult == [outcome |-> "none", index |-> 0, colour |-> <<>>]

PaletteIdle ==
    pal = [colours |-> DefaultColourList, i |-> 0, k |-> 0, done |-> FALSE,
           at_i |-> NoResult, at_neg |-> NoResult, at_shift |-> NoResult]

PaletteInit ==
    \E arg \in PaletteArgs, i \in -MaxIndex..MaxIndex, k \in -MaxK..MaxK :
        pal = [colours |-> LabelColoursInit(arg), i |-> i, k |-> k, done |-> FALSE,
               at_i |-> NoResult, at_neg |-> NoResult, at_shift |-> NoResult]

\* palette[i], palette[-i] and palette[i + k*len(palette)]
PaletteLookup ==
    /\ ~pal.done
    /\ pal' = [pal EXCEPT !.done = TRUE,
                          !.at_i = GetItem(pal.colours, pal.i),
                          !.at_neg = GetItem(pal.colours, -pal.i),
                          !.at_shift = GetItem(pal.colours, pal.i + pal.k * Len(pal.colours))]
    /\ UNCHANGED <<markerVars, now, threadVars, poseVars, blend, renderVars>>

-----------------------------------------------------------------------------
(* The mask blend of line 56 on one channel of one pixel of a uint8 image *)

Byte == 0..(2^8 - 1)

\* the float v*0.5 + c/2, in halves, before it is stored
\* A variant: the colour is added whole.
BlendHalvesWholeColour(v, c) == v + 2 * c

\* image[mask] * 0.5 is v halves, class_colour_f = float(c) / 2 is c halves
BlendHalves(v, c) == v + c

\* the store into the uint8 buffer: truncation, then the low 8 bits
StoreUint8(halves) == (halves \div 2) % (2^8)

BlendChannel(v, c) == StoreUint8(BlendHalves(v, c))

BlendIdle == blend = [v |-> 0, c |-> 0, steps |-> 0, halves |-> 0, once |-> 0, cur |-> 0]

BlendInit ==
    \E v \in Byte, c \in Byte :
        blend = [v |-> v, c |-> c, steps |-> 0, halves |-> 0, once |-> v, cur |-> v]

\* blend the pixel once more with the same mask and colour
BlendAgain ==
    /\ blend.steps < MaxBlends
    /\ blend' = [blend EXCEPT !.steps = @ + 1,
                              !.halves = BlendHalves(blend.cur, blend.c),
                              !.cur = BlendChannel(blend.cur, blend.c),
                              !.once = IF blend.steps = 0
                                       THEN BlendChannel(blend.cur, blend.c) ELSE @]
    /\ UNCHANGED <<markerVars, now, threadVars, poseVars, pal, renderVars>>

-----------------------------------------------------------------------------
(* draw_detection_msg_on_image *)

Padding == 10

FontColour == <<255, 255, 255>>

Pixels == (0..(ImageSide - 1)) \X (0..(ImageSide - 1))   \* <<row, col>>

\* int(f) of a float held in tenths: truncation toward zero
IntOfTenths(t) == IF t >= 0 THEN t \div 10 ELSE -((-t) \div 10)

\* int(score * 100) of a score held in thousandths
Percent(score) == (score * 100) \div 1000

Min(a, b) == IF a <= b THEN a ELSE b
Max(a, b) == IF a >= b THEN a ELSE b

Reversed(l) == [i \in 1..Len(l) |-> l[Len(l) + 1 - i]]

\* "rgb" in encoding, over the sensor_msgs encodings the callers pass
HasRgb(encoding) == encoding \in {"rgb8", "rgba8", "rgb16"}

\* lines 32-34: the palette, channel-reversed for a non-rgb encoding
RenderPalette(encoding) ==
    LET cols == LabelColoursInit(NoColourList)
    IN IF HasRgb(encoding) THEN cols ELSE [i \in DOMAIN cols |-> Reversed(cols[i])]

\* cv2.rectangle(img, pt1, pt2, colour, thickness): the outline one pixel wide,
\* or the filled box, clipped to the image; a point is <<x, y>> = <<col, row>>
DrawRectangle(img, pt1, pt2, colour, filled) ==
    LET xa == Min(pt1[1], pt2[1])
        xb == Max(pt1[1], pt2[1])
        ya == Min(pt1[2], pt2[2])
        yb == Max(pt1[2], pt2[2])
    IN [p \in Pixels |->
          IF /\ ya <= p[1] /\ p[1] <= yb /\ xa <= p[2] /\ p[2] <= xb
             /\ (filled \/ p[1] \in {ya, yb} \/ p[2] \in {xa, xb})
          THEN colour ELSE img[p]]

\* numpy index i on an axis of length ImageSide
AxisOk(i) == -ImageSide <= i /\ i < ImageSide
AxisIndex(i) == IF i < 0 THEN ImageSide + i ELSE i

MaskOk(mask) == \A k \in DOMAIN mask.x : AxisOk(mask.x[k]) /\ AxisOk(mask.y[k])

\* the pixels image[(mask.x, mask.y)] selects: rows from x, columns from y
MaskPixels(mask) == {<<AxisIndex(mask.x[k]), AxisIndex(mask.y[k])>> : k \in DOMAIN mask.x}

\* line 56: image[mask] = (image[mask] * 0.5) + class_colour_f
BlendMask(img, mask, colour) ==
    [p \in Pixels |->
        IF p \in MaskPixels(mask)
        THEN [ch \in 1..3 |-> BlendChannel(img[p][ch], colour[ch])]
        ELSE img[p]]

\* lines 40-41: the test that raises ValueError
\* A variant: the lengths are never compared.
ShapeMismatchNever(boxes, seg) == FALSE

ShapeMismatch(boxes, seg) == seg.given /\ Len(boxes) # Len(seg.masks)

\* line 38: detection_msg.instances if detection_msg.instances else None
InstancesOrNone(instances) ==
    IF instances # <<>> THEN [given |-> TRUE, masks |-> instances]
    ELSE [given |-> FALSE, masks |-> <<>>]

\* lines 45-66: one detection, on the running state rs = [image, texts, raised]
DrawDetection(rs, bounding_box, seg, detection_id, classes, palette, size) ==
    LET pt1 == <<IntOfTenths(bounding_box.x1), IntOfTenths(bounding_box.y1)>>
        pt2 == <<IntOfTenths(bounding_box.x2), IntOfTenths(bounding_box.y2)>>
        class_colour == GetItem(palette, bounding_box.class_id).colour
        img1 == DrawRectangle(rs.image, pt1, pt2, class_colour, FALSE)
        \* segmentation_lbl_msgs[detection_id] past the end, or a pixel off the image
        maskBad == seg.given /\ (detection_id > Len(seg.masks)
                                  \/ ~MaskOk(seg.masks[detection_id]))
        img2 == IF seg.given /\ ~maskBad
                THEN BlendMask(img1, seg.masks[detection_id], class_colour)
                ELSE img1
        nameOutcome == ListIndexOutcome(Len(classes.names), PyInt(bounding_box.class_id))
        pt4 == <<pt1[1] + size[1] + (Padding \div 2), pt1[2] - size[2] - Padding>>
        pt5 == <<pt1[1] + (Padding \div 2), pt1[2] - (size[2] \div 2)>>
    IN IF maskBad THEN [rs EXCEPT !.image = img1, !.raised = "IndexError"]
       ELSE IF ~classes.given THEN [rs EXCEPT !.image = img2]
       ELSE IF nameOutcome # "ok" THEN [rs EXCEPT !.image = img2, !.raised = nameOutcome]
       ELSE [rs EXCEPT !.image = DrawRectangle(img2, pt1, pt4, class_colour, TRUE),
                       !.texts = Append(@, [name |-> ListIndex(classes.names,
                                                        PyInt(bounding_box.class_id)),
                                            percent |-> Percent(bounding_box.score),
                                            org |-> pt5, colour |-> FontColour])]

\* the loop of line 44: it ends at the first exception
RECURSIVE DrawLoop(_, _, _, _, _, _, _)
DrawLoop(rs, boxes, seg, detection_id, classes, palette, size) ==
    IF detection_id > Len(boxes) \/ rs.raised # "none" THEN rs
    ELSE DrawLoop(DrawDetection(rs, boxes[detection_id], seg, detection_id,
                                classes, palette, size),
                  boxes, seg, detection_id + 1, classes, palette, size)

\* draw_detection_msg_on_image(image, detection_msg, encoding=encoding)
DrawDetectionMsg(img, boxes, instances, classes, encoding, size) ==
    LET seg == InstancesOrNone(instances)
        rs0 == [image |-> img, texts |-> <<>>, raised |-> "none"]
    IN IF ShapeMismatch(boxes, seg) THEN [rs0 EXCEPT !.raised = "ValueError"]
       ELSE DrawLoop(rs0, boxes, seg, 1, classes, RenderPalette(encoding), size)

BoxInputs ==
    { [x1 |-> 0, y1 |-> 0, x2 |-> 27, y2 |-> 20, class_id |-> 0, score |-> 500],
      [x1 |-> 15, y1 |-> 19, x2 |-> 15, y2 |-> 25, class_id |-> -1, score |-> 999],
      [x1 |-> -5, y1 |-> 10, x2 |-> 10, y2 |-> 10, class_id |-> 23, score |-> 875] }

MaskInputs ==
    { [x |-> <<0, 1>>, y |-> <<0, 1>>],
      [x |-> <<2>>, y |-> <<-1>>],
      [x |-> <<0>>, y |-> <<ImageSide>>] }

BoxLists == UNION {[1..n -> BoxInputs] : n \in 0..MaxDetections}

MaskLists == UNION {[1..n -> MaskInputs] : n \in 0..MaxDetections}

NoClasses == [given |-> FALSE, names |-> <<>>]

ClassInputs == {NoClasses, [given |-> TRUE, names |-> <<"ripe", "unripe">>]}

EncodingInputs == {"rgb8", "bgr8"}

\* what cv2.getTextSize may return for a label: <<width, height>>
TextSizeInputs == {<<1, 1>>, <<4, 2>>}

PixelInputs == {<<0, 0, 0>>, <<255, 255, 255>>, <<10, 21, 200>>}

BlankImage(px) == [p \in Pixels |-> px]

NoRenderCall == [done |-> FALSE, boxes |-> <<>>, instances |-> <<>>,
                 classes |-> NoClasses, encoding |-> "rgb8", raised |-> "none",
                 before |-> BlankImage(<<0, 0, 0>>)]

RenderIdle ==
    /\ image = BlankImage(<<0, 0, 0>>)
    /\ texts = <<>>
    /\ renderCall = NoRenderCall

RenderInit ==
    /\ \E px \in PixelInputs : image = BlankImage(px)
    /\ texts = <<>>
    /\ renderCall = NoRenderCall

\* one call of draw_detection_msg_on_image on the image
Render ==
    /\ ~renderCall.done
    /\ \E boxes \in BoxLists, instances \in MaskLists, classes \in ClassInputs,
          encoding \in EncodingInputs, size \in TextSizeInputs :
          LET rs == DrawDetectionMsg(image, boxes, instances, classes, encoding, size)
          IN /\ image' = rs.image
             /\ texts' = rs.texts
             /\ renderCall' = [done |-> TRUE, boxes |-> boxes, instances |-> instances,
                               classes |-> classes, encoding |-> encoding,
                               raised |-> rs.raised, before |-> image]
    /\ UNCHANGED <<markerVars, now, threadVars, poseVars, pal, blend>>

-----------------------------------------------------------------------------
(* MarkerPublisher.__init__ followed by one marker per colour index *)

\* MarkerPublisher(name, colours=supplied)
Construct ==
    /\ ~constructed
    /\ constructed' = TRUE
    /\ colours' = MarkerInitColours(supplied)
    /\ UNCHANGED <<supplied, last_object_id, sink, logged, lastCall, calls, now>>
    /\ UNCHANGED <<threadVars, restVars>>

\* visualise_points([(1, 2, 3, i)], header, True, duration) for an index i of
\* the colour list
VisualiseColour ==
    \E i \in {0, -1}, opts \in CallOptions :
        VisualisePointsCall(<< <<PyInt(1), PyInt(2), PyInt(3), PyInt(i)>> >>,
                            opts[1], TRUE, opts[2])

-----------------------------------------------------------------------------
(* Specifications *)

vars == <<supplied, colours, last_object_id, sink, logged, lastCall, calls,
          constructed, now, serialized, tpc, tcall, tloc, tcalls,
          pose_frame_id, poseSink, poseCall, pal, blend, image, texts, renderCall>>

MarkerStart(args) ==
    /\ supplied \in args
    /\ colours = MarkerInitColours(supplied)
    /\ constructed = TRUE
    /\ last_object_id = -1
    /\ sink = <<>>
    /\ logged = <<>>
    /\ lastCall = NoCall
    /\ calls = 0
    /\ now = 0

\* the sequential MarkerPublisher
Init == MarkerStart(ColourInputs) /\ ThreadsIdle /\ PoseIdle /\ PaletteIdle /\ BlendIdle /\ RenderIdle

Next == ClearMarkers \/ VisualisePoints

Spec == Init /\ [][Next]_vars

\* two threads on one MarkerPublisher
InitThreads ==
    /\ MarkerStart({NoColours})
    /\ serialized \in BOOLEAN
    /\ tpc = [t \in Threads |-> "idle"]
    /\ tcall = [t \in Threads |-> NoThreadCall]
    /\ tloc = [t \in Threads |-> NoLocals]
    /\ tcalls = [t \in Threads |-> 0]
    /\ PoseIdle /\ PaletteIdle /\ BlendIdle /\ RenderIdle

NextThreads ==
    \E t \in Threads :
        \/ TStartClear(t)
        \/ TStartVisualise(t)
        \/ TClearPublish(t)
        \/ TClearReset(t)
        \/ TLoop(t)
        \/ TIdLoad(t)
        \/ TIdStore(t)
        \/ TIdReturn(t)
        \/ TPublish(t)

SpecThreads == InitThreads /\ [][NextThreads]_vars

\* MarkerPublisher construction over every colours argument
InitColours ==
    /\ supplied \in ColourArgs
    /\ colours = <<>>
    /\ constructed = FALSE
    /\ last_object_id = -1
    /\ sink = <<>>
    /\ logged = <<>>
    /\ lastCall = NoCall
    /\ calls = 0
    /\ now = 0
    /\ ThreadsIdle /\ PoseIdle /\ PaletteIdle /\ BlendIdle /\ RenderIdle

NextColours == Construct \/ VisualiseColour

SpecColours == InitColours /\ [][NextColours]_vars

\* the PoseArrayPublisher
InitPose ==
    /\ MarkerStart({NoColours}) /\ ThreadsIdle /\ PaletteIdle /\ BlendIdle /\ RenderIdle
    /\ pose_frame_id \in PoseFrameInputs
    /\ poseSink = <<>>
    /\ poseCall = NoPoseCall

NextPose == PoseVisualisePoints \/ Tick

SpecPose == InitPose /\ [][NextPose]_vars

\* palette lookups
InitPalette ==
    /\ MarkerStart({NoColours}) /\ ThreadsIdle /\ PoseIdle /\ BlendIdle /\ RenderIdle
    /\ PaletteInit

NextPalette == PaletteLookup

SpecPalette == InitPalette /\ [][NextPalette]_vars

\* repeated mask blends of one pixel channel
InitBlend ==
    /\ MarkerStart({NoColours}) /\ ThreadsIdle /\ PoseIdle /\ PaletteIdle /\ RenderIdle
    /\ BlendInit

NextBlend == BlendAgain

SpecBlend == InitBlend /\ [][NextBlend]_vars

\* one render call
InitRender ==
    /\ MarkerStart({NoColours}) /\ ThreadsIdle /\ PoseIdle /\ PaletteIdle /\ BlendIdle
    /\ RenderInit

NextRender == Render

SpecRender == InitRender /\ [][NextRender]_vars

-----------------------------------------------------------------------------
(* Properties *)

\* the position of the last delete-all in a sink, 0 when there is none
LastClear(s) ==
    LET at == {i \in DOMAIN s : s[i].action = DELETEALL}
    IN IF at = {} THEN 0 ELSE CHOOSE i \in at : \A j \in at : j <= i

\* the markers published since the most recent delete-all
Live(s) == SubSeq(s, LastClear(s) + 1, Len(s))

\* an entry of the shape (x, y, z) or (x, y, z, colourIndex)
Shaped(p) ==
    \/ Len(p) = 3
    \/ Len(p) = 4 /\ ListIndexOutcome(Len(colours), p[4]) = "ok"

\* a 4-element entry whose colour index is no index of self.colours
BadIndex(p) == Len(p) = 4 /\ ListIndexOutcome(Len(colours), p[4]) # "ok"

\* what the last call published
CallOutput == SubSeq(sink, lastCall.sinkBefore + 1, Len(sink))

\* the counter the last call's first get_object_id starts from
CallBase == IF lastCall.clear THEN -1 ELSE lastCall.idBefore

\* the marker of the j-th entry of a list of shaped entries
MarkerOf(entries, j) ==
    MakeMarker(CallBase + j, lastCall.header,
               <<entries[j][1].val, entries[j][2].val, entries[j][3].val>>,
               ListIndex(colours, IF Len(entries[j]) = 4 THEN entries[j][4] ELSE PyInt(0)),
               lastCall.lifetime)

MarkersOf(entries) == [j \in 1..Len(entries) |-> MarkerOf(entries, j)]

ClearPrefix == IF lastCall.clear THEN <<clear_marker>> ELSE <<>>

\* C1: the markers published since the most recent delete-all carry the ids
\* 0, 1, 2, ... in publish order, whatever calls were made.
C1_LiveIdsFromZero ==
    \A i \in DOMAIN Live(sink) : Live(sink)[i].id = i - 1

\* C2: visualise_points never raises; every entry that is not shaped
\* (x,y,z) or (x,y,z,colourIndex) is reported and skipped and takes no id, and
\* every shaped entry is published; [(1,2,3), (4,5,6,"bad"), (7,8,9,0)] gives
\* exactly two markers, with ids 0 and 1.
C2_MalformedEntriesSkipped ==
    lastCall.op = "visualise_points" =>
        LET good == SelectSeq(lastCall.points, Shaped)
            NotShaped(p) == ~Shaped(p)
            IsAdd(m) == m.action = ADD
            added == SelectSeq(CallOutput, IsAdd)
        IN /\ lastCall.raised = "none"
           /\ logged = SelectSeq(lastCall.points, NotShaped)
           /\ Len(added) = Len(good)
           /\ \A j \in DOMAIN added : added[j].id = CallBase + j
           /\ (lastCall.points = ExampleBatch /\ lastCall.clear) =>
                  [j \in DOMAIN added |-> added[j].id] = <<0, 1>>

\* C5: a call with clear=true publishes the delete-all first, with the counter
\* reset to -1, and then one marker for each valid point in input order; a call
\* with clear=false publishes no delete-all and goes on from the counter.
C5_ClearThenOneMarkerPerValidPoint ==
    lastCall.op = "visualise_points" =>
        LET good == SelectSeq(lastCall.points, Shaped)
        IN /\ CallOutput = ClearPrefix \o MarkersOf(good)
           /\ last_object_id = CallBase + Len(good)

\* the first entry with a bad colour index, 0 when there is none
FirstBadIndex(points) ==
    LET at == {i \in DOMAIN points : BadIndex(points[i])}
    IN IF at = {} THEN 0 ELSE CHOOSE i \in at : \A j \in at : i <= j

\* C10: a 4-element point whose colour index is no index of the sub-palette
\* aborts the call there: the delete-all and the markers of the earlier points
\* stay published, no later point is published, the counter has been advanced
\* for the failing point so that its id is on no live marker, and a following
\* visualise_points(clear=false) goes on after that id.
C10_BadColourIndexAbortsAfterTakingId ==
    lastCall.op = "visualise_points" =>
        LET at == FirstBadIndex(lastCall.points)
            ArityOk(p) == Len(p) \in {3, 4}
            earlier == SelectSeq(SubSeq(lastCall.points, 1, at - 1), ArityOk)
            liveBefore == Live(SubSeq(sink, 1, lastCall.sinkBefore))
        IN /\ (lastCall.raised # "none") <=> (at # 0)
           /\ at # 0 =>
                /\ lastCall.raised = ListIndexOutcome(Len(colours), lastCall.points[at][4])
                /\ CallOutput = ClearPrefix \o MarkersOf(earlier)
                /\ last_object_id = CallBase + Len(earlier) + 1
                /\ \A i \in DOMAIN Live(sink) : Live(sink)[i].id # last_object_id
           /\ (lastCall.prevRaised # "none" /\ ~lastCall.clear /\ CallOutput # <<>>) =>
                /\ CallOutput[1].id = lastCall.idBefore + 1
                /\ \A i \in DOMAIN liveBefore : liveBefore[i].id # lastCall.idBefore

\* C10 witness: a call aborted, and the next call, with clear=false, published a marker
C10_MarkerAfterAbortedCall ==
    /\ lastCall.op = "visualise_points"
    /\ lastCall.prevRaised # "none"
    /\ ~lastCall.clear
    /\ CallOutput # <<>>

\* C6: if any component of any supplied colour exceeds 1 every component is
\* divided by 255, otherwise the set is stored unchanged; a set with components
\* in [0,255] is stored, and published, with every component in [0,1].
C6_ColoursNormalised ==
    constructed =>
        LET arg == IF supplied = NoColours THEN DefaultMarkerColours ELSE supplied
            above == \E i \in DOMAIN arg : \E j \in DOMAIN arg[i] : arg[i][j] > Whole(1)
        IN /\ above => colours = [i \in DOMAIN arg |->
                                    [j \in DOMAIN arg[i] |-> DivideBy255(arg[i][j])]]
           /\ ~above => colours = arg
           /\ \A i \in DOMAIN colours : \A j \in DOMAIN colours[i] :
                 0 <= colours[i][j] /\ colours[i][j] <= Whole(1)
           /\ \A m \in DOMAIN sink : sink[m].action = ADD =>
                 \A j \in DOMAIN sink[m].colour : sink[m].colour[j] <= Whole(1)

\* C9: when every call runs to completion before the next starts, the markers
\* published since the latest delete-all carry the ids 0, 1, 2, ... with no
\* id twice.
C9_SerializedIdsFromZero ==
    serialized => \A i \in DOMAIN Live(sink) : Live(sink)[i].id = i - 1

\* C9, the unserialized half: two markers published after the latest
\* delete-all carry the same id
C9_RaceGivesDuplicateId ==
    /\ ~serialized
    /\ \E i, j \in DOMAIN Live(sink) : i < j /\ Live(sink)[i].id = Live(sink)[j].id

C4_LookupCyclicForEveryShift ==
    pal.done =>
        /\ pal.at_i.outcome = "ok"
        /\ pal.at_i.colour \in Range(pal.colours)
        /\ pal.at_i.colour = pal.at_neg.colour
        /\ pal.at_i.colour = pal.at_shift.colour

\* C4 as amended: lookup(i) is the entry at |i| mod L, equals lookup(-i), and
\* equals lookup(i + k*L) whenever i and i + k*L are not of opposite signs.
C4_LookupFoldsThenWraps ==
    pal.done =>
        LET n == Len(pal.colours)
            shifted == pal.i + pal.k * n
            abs == IF pal.i < 0 THEN -pal.i ELSE pal.i
        IN /\ pal.at_i.outcome = "ok" /\ pal.at_neg.outcome = "ok"
           /\ pal.at_shift.outcome = "ok"
           /\ pal.at_i.colour \in Range(pal.colours)
           /\ pal.at_i.colour = pal.colours[(abs % n) + 1]
           /\ pal.at_i.colour = pal.at_neg.colour
           /\ (pal.i * shifted >= 0) => pal.at_i.colour = pal.at_shift.colour

\* C4 witness: a negative index beyond the palette length, shifted to another
\* negative index
C4_NegativeIndexShifted ==
    /\ pal.done
    /\ pal.i < -Len(pal.colours)
    /\ pal.k # 0
    /\ pal.i + pal.k * Len(pal.colours) < 0
    /\ Len(pal.colours) > 1

\* C8: one blend stores trunc(v*0.5 + c/2), a value of 0..255 reached with no
\* wraparound; a second blend with the same colour stores the formula applied
\* to the first result, which is old*0.25 + colour*0.75 less a drift below 1,
\* and differs from the once-blended value unless that value is c or c - 1.
C8_BlendHalvesThenTruncates ==
    /\ blend.steps >= 1 =>
          /\ 2 * blend.once <= blend.v + blend.c
          /\ blend.v + blend.c < 2 * blend.once + 2
          /\ blend.once \in Byte
          /\ blend.cur \in Byte
          /\ blend.halves \div 2 = blend.cur
    /\ blend.steps = 2 =>
          /\ 2 * blend.cur <= blend.once + blend.c
          /\ blend.once + blend.c < 2 * blend.cur + 2
          /\ 4 * blend.cur <= blend.v + 3 * blend.c
          /\ blend.v + 3 * blend.c < 4 * blend.cur + 4
          /\ (blend.cur = blend.once) <=> (blend.c \in {blend.once, blend.once + 1})

\* C8 witness: a pixel blended twice, truncated on the way, whose value after
\* the second blend is not its value after the first
C8_SecondBlendMovesThePixel ==
    /\ blend.steps = 2
    /\ blend.cur # blend.once
    /\ (blend.v + blend.c) % 2 = 1
    /\ blend.v = 255

\* C3 as stated: whenever the number of masks differs from the number of boxes,
\* a mask list of length 0 included, the call raises the shape-mismatch error
\* and the image is as before the call.
C3_AnyMismatchRaises ==
    (renderCall.done /\ Len(renderCall.instances) # Len(renderCall.boxes)) =>
        /\ renderCall.raised = "ValueError"
        /\ image = renderCall.before
        /\ texts = <<>>

\* C3 as amended: a non-empty mask list whose length differs from the number
\* of boxes makes the call raise the shape-mismatch error with the image as
\* before the call; an empty mask list is no mask list: the call raises no
\* shape-mismatch error and draws the boxes.
C3_NonEmptyMismatchRaisesBeforeDrawing ==
    renderCall.done =>
        /\ (renderCall.instances # <<>>
            /\ Len(renderCall.instances) # Len(renderCall.boxes)) =>
                /\ renderCall.raised = "ValueError"
                /\ image = renderCall.before
                /\ texts = <<>>
        /\ (renderCall.instances = <<>>
            \/ Len(renderCall.instances) = Len(renderCall.boxes)) =>
                renderCall.raised # "ValueError"
        /\ (renderCall.instances = <<>> /\ renderCall.boxes # <<>>) =>
                image # renderCall.before

\* C3 witness: two masks for one box
C3_TwoMasksOneBox ==
    /\ renderCall.done
    /\ Len(renderCall.instances) = 2
    /\ Len(renderCall.boxes) = 1
    /\ renderCall.raised = "ValueError"

=============================================================================
